---- MODULE Spec2Model ----
(***************************************************************************)
(* Model of src/src/pdfService.ts: the text normalizer (cleanText), the    *)
(* quality classifier (isTextQualityGood), the chunker (chunkText) and the *)
(* two extraction paths (extractPdfText, extractPdfWithOcr).               *)
(*                                                                         *)
(* A string is a sequence of UTF-16 code units (naturals); all code units  *)
(* used here are in the Basic Multilingual Plane, so text.length is Len.   *)
(***************************************************************************)
EXTENDS Integers, Sequences, FiniteSets, TLC

(* ---------------------------------------------------------------------- *)
(* Characters                                                             *)
(* ---------------------------------------------------------------------- *)

TAB == 9
NL == 10
CR == 13
SP == 32
DOT == 46

\* /[\x00-\x09\x0B\x0C\x0E-\x1F\x7F]/ : the class cleanText deletes.
IsControl(c) == (0 <= c /\ c <= 9) \/ c = 11 \/ c = 12 \/ (14 <= c /\ c <= 31) \/ c = 127

\* /[ \t]/ : the class cleanText collapses.
IsBlank(c) == c = SP \/ c = TAB

\* WhiteSpace and LineTerminator of ECMAScript: what String.prototype.trim strips.
IsWhiteSpace(c) ==
    \/ (9 <= c /\ c <= 13) \/ c = 32 \/ c = 160 \/ c = 5760
    \/ (8192 <= c /\ c <= 8202) \/ c = 8232 \/ c = 8233 \/ c = 8239 \/ c = 8287
    \/ c = 12288 \/ c = 65279

\* /[\u0600-\u06FF\u0750-\u077F\u08A0-\u08FF]/ : the Arabic letter count.
IsArabicLetter(c) ==
    (1536 <= c /\ c <= 1791) \/ (1872 <= c /\ c <= 1919) \/ (2208 <= c /\ c <= 2303)

\* /[\u0600-\u06FF\u0750-\u077F]/ : the class of the Arabic word pattern.
IsArabicWordChar(c) == (1536 <= c /\ c <= 1791) \/ (1872 <= c /\ c <= 1919)

\* /[a-zA-Z\u00C0-\u00FF]/
IsLatinLetter(c) == (97 <= c /\ c <= 122) \/ (65 <= c /\ c <= 90) \/ (192 <= c /\ c <= 255)

\* /[0-9]/
IsDigit(c) == 48 <= c /\ c <= 57

(* ---------------------------------------------------------------------- *)
(* String primitives                                                      *)
(* ---------------------------------------------------------------------- *)

\* text.slice(from, to) with 0-based offsets, from >= 0; to is clamped to the length.
Slice(s, from, to) ==
    LET t == IF to > Len(s) THEN Len(s) ELSE to
    IN  IF from >= t THEN <<>> ELSE SubSeq(s, from + 1, t)

\* String.prototype.trim.
Trim(s) ==
    IF \A i \in 1..Len(s) : IsWhiteSpace(s[i]) THEN <<>>
    ELSE LET first == CHOOSE i \in 1..Len(s) :
                        /\ ~IsWhiteSpace(s[i])
                        /\ \A j \in 1..(i - 1) : IsWhiteSpace(s[j])
             last == CHOOSE i \in 1..Len(s) :
                        /\ ~IsWhiteSpace(s[i])
                        /\ \A j \in (i + 1)..Len(s) : IsWhiteSpace(s[j])
         IN  SubSeq(s, first, last)

\* The 0-based offsets of the trimmed slice inside s: <<lo, hi>>, slice [lo, hi).
TrimSpan(s) ==
    IF \A i \in 1..Len(s) : IsWhiteSpace(s[i]) THEN <<0, 0>>
    ELSE LET first == CHOOSE i \in 1..Len(s) :
                        /\ ~IsWhiteSpace(s[i])
                        /\ \A j \in 1..(i - 1) : IsWhiteSpace(s[j])
             last == CHOOSE i \in 1..Len(s) :
                        /\ ~IsWhiteSpace(s[i])
                        /\ \A j \in (i + 1)..Len(s) : IsWhiteSpace(s[j])
         IN  <<first - 1, last>>

\* s.lastIndexOf(<<a, b>>) for a two-character pattern: 0-based, -1 when absent.
LastIndexOf2(s, a, b) ==
    LET hits == {i \in 1..(Len(s) - 1) : s[i] = a /\ s[i + 1] = b}
    IN  IF hits = {} THEN -1
        ELSE (CHOOSE i \in hits : \A j \in hits : j <= i) - 1

\* The function f of domain 1..n as a sequence (the same value, held as a tuple).
AsSeq(f) == SubSeq(f, 1, Len(f))

\* The elements of s at the positions where keep(s, i) holds, in order.
FilterIdx(s, keep(_, _)) ==
    LET tagged == AsSeq([i \in 1..Len(s) |-> [c |-> s[i], k |-> keep(s, i)]])
        kept == SelectSeq(tagged, LAMBDA t : t.k)
    IN  AsSeq([i \in 1..Len(kept) |-> kept[i].c])

(* ---------------------------------------------------------------------- *)
(* cleanText                                                              *)
(* ---------------------------------------------------------------------- *)

\* .replace(/[\x00-\x09\x0B\x0C\x0E-\x1F\x7F]/g, "")
StripControl(s) == SelectSeq(s, LAMBDA c : ~IsControl(c))

\* .replace(/[ \t]+/g, " ")
CollapseBlanks(s) ==
    LET first(t, i) == ~IsBlank(t[i]) \/ i = 1 \/ ~IsBlank(t[i - 1])
        runs == FilterIdx(s, first)
    IN  AsSeq([i \in 1..Len(runs) |-> IF IsBlank(runs[i]) THEN SP ELSE runs[i]])

\* .replace(/\n{3,}/g, "\n\n"): the regex is greedy, so each maximal run of three or
\* more newlines becomes two: a newline is kept iff at most one newline precedes it
\* in its run.
CollapseNewlines(s) ==
    LET keep(t, i) == t[i] # NL \/ i <= 2 \/ t[i - 1] # NL \/ t[i - 2] # NL
    IN  FilterIdx(s, keep)

\* .split("\n"): the pieces between the newlines, in order. The text is cut at the
\* newline nearest after its middle (else the last one before it) and each side is
\* split in turn, so that the depth of the recursion stays small on texts of
\* thousands of lines.
RECURSIVE SplitLines(_)
SplitLines(s) ==
    IF \A i \in 1..Len(s) : s[i] # NL THEN <<s>>
    ELSE LET m == (Len(s) + 1) \div 2
             p == IF \E i \in m..Len(s) : s[i] = NL
                  THEN CHOOSE i \in m..Len(s) :
                            s[i] = NL /\ \A j \in m..(i - 1) : s[j] # NL
                  ELSE m - (CHOOSE d \in 1..(m - 1) :
                            s[m - d] = NL /\ \A e \in 1..(d - 1) : s[m - e] # NL)
         IN  SplitLines(SubSeq(s, 1, p - 1)) \o SplitLines(SubSeq(s, p + 1, Len(s)))

\* .join("\n"), by halves for the same reason.
RECURSIVE JoinLines(_)
JoinLines(ls) ==
    IF Len(ls) = 0 THEN <<>>
    ELSE IF Len(ls) = 1 THEN ls[1]
    ELSE LET h == Len(ls) \div 2
         IN  JoinLines(SubSeq(ls, 1, h)) \o <<NL>> \o JoinLines(SubSeq(ls, h + 1, Len(ls)))

\* .split("\n").map(line => line.trim()).join("\n")
TrimLines(s) ==
    LET ls == SplitLines(s)
    IN  JoinLines(AsSeq([k \in 1..Len(ls) |-> Trim(ls[k])]))

\* In the operators below txt, start and acc stand for the source's text, startIndex
\* and chunks, the names that the state variables of chunkText's call carry.
cleanText(txt) ==
    IF Len(txt) = 0 THEN <<>>
    ELSE Trim(TrimLines(CollapseNewlines(CollapseBlanks(StripControl(txt)))))

(* ---------------------------------------------------------------------- *)
(* CONFIG                                                                 *)
(* ---------------------------------------------------------------------- *)

MIN_TEXT_LENGTH == 50
CHUNK_SIZE == 6000
CHUNK_OVERLAP == 500
\* The literal 200 of searchStart / searchEnd and the literal 100 of the anti-stall test.
SEARCH_RADIUS == 200
TAIL_MARGIN == 100
\* The literal 20 of containsRealWords.
MIN_WORDS_LENGTH == 20

Max2(a, b) == IF a >= b THEN a ELSE b
Min2(a, b) == IF a <= b THEN a ELSE b

(* ---------------------------------------------------------------------- *)
(* isTextQualityGood                                                      *)
(* ---------------------------------------------------------------------- *)

\* (text.match(/[class]/g) || []).length
CountChars(s, InClass(_)) == Len(SelectSeq(s, InClass))

\* (text.match(/[class]{3,}/g) || []).length : the quantifier is greedy, so every
\* maximal run of at least three characters of the class is exactly one match.
CountWords(s, InClass(_)) ==
    Cardinality({i \in 1..(Len(s) - 2) :
        /\ InClass(s[i]) /\ InClass(s[i + 1]) /\ InClass(s[i + 2])
        /\ (i = 1 \/ ~InClass(s[i - 1]))})

\* The ratio tests are those of the doubles: a quotient of two integers is the
\* correctly rounded real quotient, so k / n < 0.15 iff 100 k < 15 n, d / n > 0.5 iff
\* 2 d > n, and w < (n / 10) * 0.1 iff 100 w < n.
\* Lines 38-40: totalLetters.
TotalLetters(txt) == CountChars(txt, IsArabicLetter) + CountChars(txt, IsLatinLetter)

\* Lines 50-52: totalWords.
TotalWords(txt) == CountWords(txt, IsArabicWordChar) + CountWords(txt, IsLatinLetter)

\* Mutant of LetterRatioBelowFloor: <= for <.
LetterRatioAtOrBelowFloor(totalLetters, totalChars) ==
    100 * totalLetters <= 15 * totalChars

\* letterRatio < 0.15, with letterRatio = totalLetters / totalChars (lines 44, 47, 48).
LetterRatioBelowFloor(totalLetters, totalChars) ==
    100 * totalLetters < 15 * totalChars

\* Mutant of containsRealWords: the test of line 48 is missing.
containsRealWordsNoLetterFloor(txt) ==
    IF Len(txt) = 0 \/ Len(txt) < MIN_WORDS_LENGTH THEN FALSE
    ELSE LET totalLetters == TotalLetters(txt)
             digits == CountChars(txt, IsDigit)
             totalChars == Len(txt)
             totalWords == TotalWords(txt)
         IN  IF 2 * digits > totalChars /\ LetterRatioBelowFloor(totalLetters, totalChars)
             THEN FALSE
             ELSE IF 100 * totalWords < totalChars THEN FALSE
             ELSE TRUE

\* Mutant of containsRealWords: the sparsity test of line 55 is missing.
containsRealWordsNoSparsity(txt) ==
    IF Len(txt) = 0 \/ Len(txt) < MIN_WORDS_LENGTH THEN FALSE
    ELSE LET totalLetters == TotalLetters(txt)
             digits == CountChars(txt, IsDigit)
             totalChars == Len(txt)
         IN  IF 2 * digits > totalChars /\ LetterRatioBelowFloor(totalLetters, totalChars)
             THEN FALSE
             ELSE IF LetterRatioBelowFloor(totalLetters, totalChars) THEN FALSE
             ELSE TRUE

\* Lines 35-58.
containsRealWords(txt) ==
    IF Len(txt) = 0 \/ Len(txt) < MIN_WORDS_LENGTH THEN FALSE
    ELSE LET totalLetters == TotalLetters(txt)
             digits == CountChars(txt, IsDigit)
             totalChars == Len(txt)
             totalWords == TotalWords(txt)
         IN  IF 2 * digits > totalChars /\ LetterRatioBelowFloor(totalLetters, totalChars)
             THEN FALSE
             ELSE IF LetterRatioBelowFloor(totalLetters, totalChars) THEN FALSE
             ELSE IF 100 * totalWords < totalChars THEN FALSE
             ELSE TRUE

\* The line of the return statement that ends isTextQualityGood(text): 61, or inside
\* containsRealWords 36, 47, 48, 55 or 57.
ReturnLine(txt) ==
    IF Len(txt) = 0 \/ Len(Trim(txt)) < MIN_TEXT_LENGTH THEN 61
    ELSE IF Len(txt) < MIN_WORDS_LENGTH THEN 36
    ELSE IF 2 * CountChars(txt, IsDigit) > Len(txt)
              /\ LetterRatioBelowFloor(TotalLetters(txt), Len(txt)) THEN 47
    ELSE IF LetterRatioBelowFloor(TotalLetters(txt), Len(txt)) THEN 48
    ELSE IF 100 * TotalWords(txt) < Len(txt) THEN 55
    ELSE 57

\* Mutant of isTextQualityGood: the length test of line 61 is missing.
isTextQualityGoodNoMinLength(txt) == containsRealWords(txt)

\* Lines 60-63.

isTextQualityGood(txt) ==
    IF Len(txt) = 0 \/ Len(Trim(txt)) < MIN_TEXT_LENGTH THEN FALSE
    ELSE containsRealWords(txt)

(* ---------------------------------------------------------------------- *)
(* chunkText                                                              *)
(* ---------------------------------------------------------------------- *)

\* Mutant of EndIndex: the search zone reaches one character too far.
EndIndexWiderZone(txt, start) ==
    LET tentative == start + CHUNK_SIZE
    IN  IF tentative < Len(txt)
        THEN LET searchStart == Max2(start + CHUNK_SIZE - SEARCH_RADIUS, start)
                 searchEnd == Min2(start + CHUNK_SIZE + SEARCH_RADIUS + 1, Len(txt))
                 searchZone == Slice(txt, searchStart, searchEnd)
                 breakPoints == {LastIndexOf2(searchZone, DOT, SP),
                                 LastIndexOf2(searchZone, DOT, NL),
                                 LastIndexOf2(searchZone, NL, NL)} \ {-1}
             IN  IF breakPoints # {}
                 THEN searchStart
                        + (CHOOSE b \in breakPoints : \A c \in breakPoints : c <= b) + 1
                 ELSE tentative
        ELSE tentative

\* Mutant of EndIndex: the earliest of the break points is taken (min for max).
EndIndexEarliestBreak(txt, start) ==
    LET tentative == start + CHUNK_SIZE
    IN  IF tentative < Len(txt)
        THEN LET searchStart == Max2(start + CHUNK_SIZE - SEARCH_RADIUS, start)
                 searchEnd == Min2(start + CHUNK_SIZE + SEARCH_RADIUS, Len(txt))
                 searchZone == Slice(txt, searchStart, searchEnd)
                 breakPoints == {LastIndexOf2(searchZone, DOT, SP),
                                 LastIndexOf2(searchZone, DOT, NL),
                                 LastIndexOf2(searchZone, NL, NL)} \ {-1}
             IN  IF breakPoints # {}
                 THEN searchStart
                        + (CHOOSE b \in breakPoints : \A c \in breakPoints : b <= c) + 1
                 ELSE tentative
        ELSE tentative

\* Lines 85-101: the end of the window that starts at startIndex.
EndIndex(txt, start) ==
    LET tentative == start + CHUNK_SIZE
    IN  IF tentative < Len(txt)
        THEN LET searchStart == Max2(start + CHUNK_SIZE - SEARCH_RADIUS, start)
                 searchEnd == Min2(start + CHUNK_SIZE + SEARCH_RADIUS, Len(txt))
                 searchZone == Slice(txt, searchStart, searchEnd)
                 breakPoints == {LastIndexOf2(searchZone, DOT, SP),
                                 LastIndexOf2(searchZone, DOT, NL),
                                 LastIndexOf2(searchZone, NL, NL)} \ {-1}
             IN  IF breakPoints # {}
                 THEN searchStart
                        + (CHOOSE b \in breakPoints : \A c \in breakPoints : c <= b) + 1
                 ELSE tentative
        ELSE tentative

\* Mutant of NextStart: the overlap is as large as a chunk.
NextStartChunkOverlap(txt, endIndex) ==
    LET s == endIndex - CHUNK_SIZE
    IN  IF s <= 0 \/ s >= Len(txt) - TAIL_MARGIN THEN endIndex ELSE s

\* Mutant of NextStart: the overlap is added instead of subtracted.
NextStartSignSlip(txt, endIndex) ==
    LET s == endIndex + CHUNK_OVERLAP
    IN  IF s <= 0 \/ s >= Len(txt) - TAIL_MARGIN THEN endIndex ELSE s

\* Mutant of NextStart: the overlap of line 106 is forgotten.
NextStartNoOverlap(txt, endIndex) == endIndex

\* Lines 106-107: the start of the next window.
NextStart(txt, endIndex) ==
    LET s == endIndex - CHUNK_OVERLAP
    IN  IF s <= 0 \/ s >= Len(txt) - TAIL_MARGIN THEN endIndex ELSE s

\* Mutant of PushChunk: the trimmed slice is pushed without the length test.
PushChunkAlways(acc, txt, start, endIndex) ==
    Append(acc, Trim(Slice(txt, start, endIndex)))

\* Lines 103-104: the chunks after the window [startIndex, endIndex).
PushChunk(acc, txt, start, endIndex) ==
    LET chunk == Trim(Slice(txt, start, endIndex))
    IN  IF Len(chunk) > 0 THEN Append(acc, chunk) ELSE acc

\* Lines 84-108: the while loop.
RECURSIVE ChunkLoop(_, _, _)
ChunkLoop(txt, start, acc) ==
    IF start < Len(txt)
    THEN LET endIndex == EndIndex(txt, start)
         IN  ChunkLoop(txt, NextStart(txt, endIndex),
                       PushChunk(acc, txt, start, endIndex))
    ELSE acc

\* Mutant of IsShort: < for <=.
IsShortStrict(txt) == Len(txt) < CHUNK_SIZE

\* Line 79: the test of the single-chunk return.
IsShort(txt) == Len(txt) <= CHUNK_SIZE

\* Mutant of chunkText: the test of line 78 is missing, so the empty text is returned
\* as one (empty) chunk by line 79.
chunkTextNoEmptyCase(txt) ==
    IF IsShort(txt) THEN <<txt>>
    ELSE ChunkLoop(txt, 0, <<>>)

\* Lines 77-111.
chunkText(txt) ==
    IF Len(txt) = 0 THEN <<>>
    ELSE IF IsShort(txt) THEN <<txt>>
    ELSE ChunkLoop(txt, 0, <<>>)

(* ---------------------------------------------------------------------- *)
(* State                                                                  *)
(* ---------------------------------------------------------------------- *)

VARIABLES
    \* the normalizer applied to an input, then to its own output
    npc, raw, cleaned, recleaned,
    \* one call of chunkText: its argument, the loop's locals, and (history) every
    \* window the loop cut, with the span of its trimmed slice
    kpc, text, startIndex, chunks, windows,
    \* the extraction requests in flight: req[r] holds request r's position, its
    \* locals, its returned result and (history) the steps it ran and the outcomes
    \* of its calls of the PDF parser
    req,
    \* one call of isTextQualityGood: its argument, the value returned and (history)
    \* the line of the return statement that ended it
    qpc, sample, verdict, returnLine,
    \* the module variable ocrWorker (0 for null, else the number of an engine), the
    \* engines constructed so far, the calls of runOcr and the calls of
    \* terminateOcrWorker in flight
    ocrWorker, engines, ocrRun, shut

normVars == <<npc, raw, cleaned, recleaned>>
chunkVars == <<kpc, text, startIndex, chunks, windows>>
qualVars == <<qpc, sample, verdict, returnLine>>
ocrVars == <<ocrWorker, engines, ocrRun, shut>>
vars ==
    <<npc, raw, cleaned, recleaned, kpc, text, startIndex, chunks, windows, req,
      qpc, sample, verdict, returnLine, ocrWorker, engines, ocrRun, shut>>

NormIdle == npc = "off" /\ raw = <<>> /\ cleaned = <<>> /\ recleaned = <<>>
ChunkIdle ==
    kpc = "off" /\ text = <<>> /\ startIndex = 0 /\ chunks = <<>> /\ windows = <<>>

QualIdle == qpc = "off" /\ sample = <<>> /\ verdict = FALSE /\ returnLine = 0

NumOcrCalls == 2
OcrCalls == 1..NumOcrCalls
NumShutdowns == 2
Shutdowns == 1..NumShutdowns

\* A call of runOcr that has not been made: worker is the engine the call holds (0
\* for none), and (history) seen is the number of terminate() calls that engine had
\* received when the call obtained it, createFailed whether createWorker rejected
\* in this call, outcome how the call ended.
NoOcrCall ==
    [pc |-> "idle", highPrecision |-> FALSE, worker |-> 0, seen |-> 0,
     createFailed |-> FALSE, outcome |-> "none", text |-> <<>>]

\* A call of terminateOcrWorker that has not been made: worker is the engine whose
\* terminate() the call awaits (0 for none), and (history) nth is the number of
\* calls of terminateOcrWorker made before this one, overlapped whether one of them
\* was still in flight when this one was made.
NoShutdown == [pc |-> "idle", worker |-> 0, nth |-> 0, overlapped |-> FALSE]

\* Line 29: let ocrWorker = null, and no call made.
OcrIdle ==
    /\ ocrWorker = 0
    /\ engines = <<>>
    /\ ocrRun = [p \in OcrCalls |-> NoOcrCall]
    /\ shut = [t \in Shutdowns |-> NoShutdown]

NumRequests == 2
Requests == 1..NumRequests

\* A request that has not been made.
NoRequest ==
    [kind |-> "none", pc |-> "idle", text |-> <<>>,
     numPages |-> 0, cleanedText |-> <<>>, chunks |-> <<>>, result |-> <<>>,
     trace |-> <<>>, parses |-> <<>>]

ReqIdle == req = [r \in Requests |-> NoRequest]

\* All strings over the alphabet of length at most n.
StringsUpTo(alphabet, n) == UNION {[1..k -> alphabet] : k \in 0..n}

(* ---------------------------------------------------------------------- *)
(* The normalizer as a system: cleanText(x), then cleanText of the result *)
(* ---------------------------------------------------------------------- *)

LETTER == 97
CTRL == 1
MaxCleanLen == 6
CleanAlphabet == {LETTER, SP, TAB, NL, CTRL}

InitClean ==
    /\ npc = "input"
    /\ raw \in StringsUpTo(CleanAlphabet, MaxCleanLen)
    /\ cleaned = <<>>
    /\ recleaned = <<>>
    /\ ChunkIdle
    /\ ReqIdle
    /\ QualIdle
    /\ OcrIdle

CleanOnce ==
    /\ npc = "input"
    /\ cleaned' = cleanText(raw)
    /\ npc' = "once"
    /\ UNCHANGED <<raw, recleaned>>
    /\ UNCHANGED chunkVars
    /\ UNCHANGED req
    /\ UNCHANGED <<qualVars, ocrVars>>

CleanTwice ==
    /\ npc = "once"
    /\ recleaned' = cleanText(cleaned)
    /\ npc' = "twice"
    /\ UNCHANGED <<raw, cleaned>>
    /\ UNCHANGED chunkVars
    /\ UNCHANGED req
    /\ UNCHANGED <<qualVars, ocrVars>>

NextClean == CleanOnce \/ CleanTwice

SpecClean == InitClean /\ [][NextClean]_vars

(* ---------------------------------------------------------------------- *)
(* The chunker as a system: one call of chunkText, one loop iteration per *)
(* step. chunkText is private to the module and its only callers pass it  *)
(* cleanedText (lines 193 and 227), so its inputs are outputs of          *)
(* cleanText.                                                             *)
(* ---------------------------------------------------------------------- *)

MaxShortLen == 3
ShortAlphabet == {LETTER, SP, DOT, NL}

\* Long raw texts: n letters, with an optional two-character delimiter <<d1, d2>> at
\* offset p and an optional stretch of carriage returns at offsets [gap[1], gap[2]).
\* A carriage return is white space for trim, and cleanText keeps it inside a line.
RawLongText(n, d1, d2, p, gap) ==
    AsSeq([i \in 1..n |->
            IF i - 1 = p THEN d1
            ELSE IF i - 1 = p + 1 THEN d2
            ELSE IF gap[1] <= i - 1 /\ i - 1 < gap[2] THEN CR
            ELSE LETTER])

LongLengths ==
    {CHUNK_SIZE + 1, CHUNK_SIZE + SEARCH_RADIUS + 1, 2 * CHUNK_SIZE - 600,
     2 * CHUNK_SIZE}

\* Offsets of a delimiter around the first window's search zone
\* [CHUNK_SIZE - 200, CHUNK_SIZE + 200).
DelimOffsets ==
    {CHUNK_SIZE - SEARCH_RADIUS - 1, CHUNK_SIZE - SEARCH_RADIUS, CHUNK_SIZE - 1,
     CHUNK_SIZE, CHUNK_SIZE + SEARCH_RADIUS - 2, CHUNK_SIZE + SEARCH_RADIUS - 1}

Delims == {<<LETTER, LETTER>>, <<DOT, SP>>, <<DOT, NL>>, <<NL, NL>>}

NoGap == <<0, 0>>
\* White space over the tail of the first window and the head of the second.
OverlapGap == <<CHUNK_SIZE - 600, CHUNK_SIZE>>
\* White space over the whole of the second window.
WindowGap == <<CHUNK_SIZE - 600, 2 * CHUNK_SIZE>>

\* Two delimiters of different kinds inside the first window's search zone: d at
\* offset CHUNK_SIZE - 100 and e at offset CHUNK_SIZE - 50 of 2 * CHUNK_SIZE letters.
TwoDelimText(d, e) ==
    AsSeq([i \in 1..(2 * CHUNK_SIZE) |->
            IF i - 1 = CHUNK_SIZE - 100 THEN d[1]
            ELSE IF i - 1 = CHUNK_SIZE - 99 THEN d[2]
            ELSE IF i - 1 = CHUNK_SIZE - 50 THEN e[1]
            ELSE IF i - 1 = CHUNK_SIZE - 49 THEN e[2]
            ELSE LETTER])

DelimKinds == {<<DOT, SP>>, <<DOT, NL>>, <<NL, NL>>}

RawChunkInputs(maxShort) ==
    StringsUpTo(ShortAlphabet, maxShort)
        \cup {TwoDelimText(d, e) : d \in DelimKinds, e \in DelimKinds}
        \cup {AsSeq([i \in 1..CHUNK_SIZE |-> LETTER])}
        \cup {RawLongText(n, d[1], d[2], p, NoGap) :
                n \in LongLengths, d \in Delims, p \in DelimOffsets}
        \cup {RawLongText(2 * CHUNK_SIZE, d[1], d[2], p, OverlapGap) :
                d \in Delims, p \in DelimOffsets}
        \cup {RawLongText(3 * CHUNK_SIZE, LETTER, LETTER, 0, WindowGap)}

\* Lines 192-193 and 226-227: chunkText is applied to cleanText's result.
ChunkInputs(maxShort) == {cleanText(x) : x \in RawChunkInputs(maxShort)}

InitChunk ==
    /\ kpc = "call"
    /\ text \in ChunkInputs(MaxShortLen)
    /\ startIndex = 0
    /\ chunks = <<>>
    /\ windows = <<>>
    /\ NormIdle
    /\ ReqIdle
    /\ QualIdle
    /\ OcrIdle

\* Line 78.
ChunkEmpty ==
    /\ kpc = "call"
    /\ Len(text) = 0
    /\ kpc' = "done"
    /\ UNCHANGED <<text, startIndex, chunks, windows>>
    /\ UNCHANGED normVars
    /\ UNCHANGED req
    /\ UNCHANGED <<qualVars, ocrVars>>

\* Line 79.
ChunkSingle ==
    /\ kpc = "call"
    /\ Len(text) # 0
    /\ IsShort(text)
    /\ chunks' = <<text>>
    /\ windows' = <<[start |-> 0, end |-> Len(text), lo |-> 0, hi |-> Len(text),
                     pushed |-> TRUE]>>
    /\ kpc' = "done"
    /\ UNCHANGED <<text, startIndex>>
    /\ UNCHANGED normVars
    /\ UNCHANGED req
    /\ UNCHANGED <<qualVars, ocrVars>>

\* Lines 81-82.
ChunkEnter ==
    /\ kpc = "call"
    /\ Len(text) # 0
    /\ ~IsShort(text)
    /\ chunks' = <<>>
    /\ startIndex' = 0
    /\ kpc' = "loop"
    /\ UNCHANGED <<text, windows>>
    /\ UNCHANGED normVars
    /\ UNCHANGED req
    /\ UNCHANGED <<qualVars, ocrVars>>

\* Lines 84-108: one iteration of the loop.
ChunkIter ==
    /\ kpc = "loop"
    /\ startIndex < Len(text)
    /\ LET endIndex == EndIndex(text, startIndex)
           span == TrimSpan(Slice(text, startIndex, endIndex))
           pushedTo == PushChunk(chunks, text, startIndex, endIndex)
       IN  /\ chunks' = pushedTo
           /\ windows' = Append(windows,
                            [start |-> startIndex, end |-> endIndex,
                             lo |-> startIndex + span[1], hi |-> startIndex + span[2],
                             pushed |-> Len(pushedTo) > Len(chunks)])
           /\ startIndex' = NextStart(text, endIndex)
    /\ UNCHANGED <<kpc, text>>
    /\ UNCHANGED normVars
    /\ UNCHANGED req
    /\ UNCHANGED <<qualVars, ocrVars>>

\* Line 84 false, line 110.
ChunkReturn ==
    /\ kpc = "loop"
    /\ startIndex >= Len(text)
    /\ kpc' = "done"
    /\ UNCHANGED <<text, startIndex, chunks, windows>>
    /\ UNCHANGED normVars
    /\ UNCHANGED req
    /\ UNCHANGED <<qualVars, ocrVars>>

NextChunk == ChunkEmpty \/ ChunkSingle \/ ChunkEnter \/ ChunkIter \/ ChunkReturn

SpecChunk == InitChunk /\ [][NextChunk]_vars

\* The windows whose chunk was pushed, in order: one per element of chunks.
Emitted == SelectSeq(windows, LAMBDA w : w.pushed)

\* The step machine returns what the function returns, and the history variable
\* locates each chunk in the input.
ChunkModelAgrees ==
    /\ kpc = "done" => chunks = chunkText(text)
    /\ Len(Emitted) = Len(chunks)
    /\ \A k \in 1..Len(chunks) : chunks[k] = Slice(text, Emitted[k].lo, Emitted[k].hi)

(* ---------------------------------------------------------------------- *)
(* The chunker on texts of 20000 characters: Latin letters with sentence  *)
(* or paragraph delimiters placed around the cut of each window.          *)
(* ---------------------------------------------------------------------- *)

SCENARIO_LENGTH == 20000

\* Where a window's delimiter is put, as an offset from the window's start: nowhere,
\* or at the first or the last offset of the search zone where lastIndexOf finds it.
NoCut == 0 - 1
CutOffsets == {NoCut, CHUNK_SIZE - SEARCH_RADIUS, CHUNK_SIZE + SEARCH_RADIUS - 2}

\* The start of the window after one that starts at s and has its delimiter at
\* offset c from s (lines 99, 106).
StartAfter(s, c) == (IF c = NoCut THEN s + CHUNK_SIZE ELSE s + c + 1) - CHUNK_OVERLAP

\* A text of 20000 letters with the delimiter <<d1, d2>> at offset c1 of the first
\* window, c2 of the second and c3 of the third.
ScenarioText(d1, d2, c1, c2, c3) ==
    LET s2 == StartAfter(0, c1)
        s3 == StartAfter(s2, c2)
        at == (IF c1 = NoCut THEN {} ELSE {c1})
                \cup (IF c2 = NoCut THEN {} ELSE {s2 + c2})
                \cup (IF c3 = NoCut THEN {} ELSE {s3 + c3})
    IN  AsSeq([i \in 1..SCENARIO_LENGTH |->
                IF (i - 1) \in at THEN d1
                ELSE IF (i - 2) \in at THEN d2
                ELSE LETTER])

ScenarioDelims == {<<DOT, SP>>, <<DOT, NL>>, <<NL, NL>>}

\* A raw text of Latin letters, spaces and newlines that cleanText turns into a text
\* of 20000 characters: CHUNK_SIZE - 1000 letters, then CHUNK_SIZE + 1000 newlines
\* with one space between each two of them (lines of a single space, which line 72
\* trims to empty lines after line 70 found no run of three newlines), then letters.
BlankLinesText ==
    LET head == CHUNK_SIZE - 1000
        newlines == CHUNK_SIZE + 1000
        tail == SCENARIO_LENGTH - head - newlines
    IN  AsSeq([i \in 1..(head + 2 * newlines - 1 + tail) |->
                IF i <= head THEN LETTER
                ELSE IF i <= head + 2 * newlines - 1
                     THEN (IF (i - head) % 2 = 1 THEN NL ELSE SP)
                     ELSE LETTER])

RawScenarioInputs ==
    {ScenarioText(d[1], d[2], c1, c2, c3) :
        d \in ScenarioDelims, c1 \in CutOffsets, c2 \in CutOffsets, c3 \in CutOffsets}
        \cup {BlankLinesText}

InitScenario ==
    /\ kpc = "call"
    /\ text \in {cleanText(x) : x \in RawScenarioInputs}
    /\ startIndex = 0
    /\ chunks = <<>>
    /\ windows = <<>>
    /\ NormIdle
    /\ ReqIdle
    /\ QualIdle
    /\ OcrIdle

NextScenario == ChunkEnter \/ ChunkIter \/ ChunkReturn

SpecScenario == InitScenario /\ [][NextScenario]_vars

(* ---------------------------------------------------------------------- *)
(* The classifier as a system: one call of isTextQualityGood on a sample  *)
(* of letters, digits and other symbols.                                  *)
(* ---------------------------------------------------------------------- *)

DIGIT == 48
\* "#": neither a letter, nor a digit, nor white space.
SYMBOL == 35

\* k letters in groups of g, with one symbol between two groups.
LettersPart(k, g) ==
    IF k = 0 THEN <<>>
    ELSE AsSeq([i \in 1..(k + (k - 1) \div g) |->
                    IF i % (g + 1) = 0 THEN SYMBOL ELSE LETTER])

Repeat(c, n) == AsSeq([i \in 1..n |-> c])

\* A sample of n characters: k letters in groups of g, then d digits, then symbols.
SampleText(n, k, g, d) ==
    LET letters == LettersPart(k, g)
    IN  letters \o Repeat(DIGIT, d) \o Repeat(SYMBOL, n - Len(letters) - d)

\* Lengths around the literal 20 of line 36 and MIN_TEXT_LENGTH, and longer ones on
\* which 0.15 * length is a whole number.
MaxSampleLen == 1000
SampleLengths ==
    {0, 10, MIN_WORDS_LENGTH - 1, MIN_WORDS_LENGTH, MIN_TEXT_LENGTH - 1, MIN_TEXT_LENGTH,
     60, 100, MaxSampleLen}

\* Numbers of letters around 0.15 * n, none and all.
LetterCounts(n) ==
    {k \in {0, (15 * n) \div 100 - 1, (15 * n) \div 100, (15 * n) \div 100 + 1, n} :
        0 <= k /\ k <= n}

\* Letters of the three Arabic ranges of line 38: U+0627 (Arabic), U+0750 (Arabic
\* Supplement) and U+08A0 (Arabic Extended-A).
ARABIC == 1575
ARABIC_SUPPLEMENT == 1872
ARABIC_EXTENDED_A == 2208
ArabicLetters == {ARABIC, ARABIC_SUPPLEMENT, ARABIC_EXTENDED_A}

\* A sample of n characters: the letter c in groups of g with one space between two
\* groups.
GroupedSample(c, n, g) ==
    AsSeq([i \in 1..n |-> IF i % (g + 1) = 0 THEN SP ELSE c])

ArabicSamples ==
    {GroupedSample(c, n, g) :
        c \in ArabicLetters, n \in {MIN_TEXT_LENGTH, 60}, g \in {2, 3, 60}}

Samples ==
    ArabicSamples \cup
    {SampleText(c[1], c[2], c[3], c[4]) :
        c \in {q \in UNION {UNION {{<<n, k, g, d>> :
                        g \in {1, 3, MaxSampleLen},
                        d \in {0, n \div 2, n - k}} :
                    k \in LetterCounts(n)} : n \in SampleLengths} :
                 (IF q[2] = 0 THEN 0 ELSE q[2] + (q[2] - 1) \div q[3]) + q[4] <= q[1]}}
        \cup {Repeat(SP, p) \o SampleText(MIN_TEXT_LENGTH - 1, MIN_TEXT_LENGTH - 1,
                                          MaxSampleLen, 0) \o Repeat(SP, p) :
                p \in {1, MIN_TEXT_LENGTH}}

InitQuality ==
    /\ qpc = "call"
    /\ sample \in Samples
    /\ verdict = FALSE
    /\ returnLine = 0
    /\ NormIdle
    /\ ChunkIdle
    /\ ReqIdle
    /\ OcrIdle

\* Lines 60-63, with the call of containsRealWords (lines 35-58).
Classify ==
    /\ qpc = "call"
    /\ verdict' = isTextQualityGood(sample)
    /\ returnLine' = ReturnLine(sample)
    /\ qpc' = "returned"
    /\ UNCHANGED sample
    /\ UNCHANGED <<normVars, chunkVars, ocrVars>>
    /\ UNCHANGED req

NextQuality == Classify

SpecQuality == InitQuality /\ [][NextQuality]_vars

(* ---------------------------------------------------------------------- *)
(* The extraction paths                                                   *)
(*                                                                        *)
(* A request runs to its next await without interleaving; the awaits are  *)
(* the calls of pdf(pdfBuffer) at lines 172, 260 and 230. The parser is   *)
(* an external collaborator: each call either rejects or yields a text    *)
(* and a page count. highPrecision is passed down to runOcrOnPdf, which   *)
(* never reads it, so it is drawn at the call and not kept.               *)
(* ---------------------------------------------------------------------- *)

\* "aaa aaa aaa ...": prose the classifier accepts from 50 characters on.
ProseText(n) == AsSeq([i \in 1..n |-> IF i % 4 = 0 THEN SP ELSE LETTER])
DigitText(n) == AsSeq([i \in 1..n |-> DIGIT])
MessyText == <<SP, LETTER, TAB, SP, NL, SP, NL, NL, LETTER, SP>>

\* The texts the parser yields: none, a short untidy one, prose of 60 characters and
\* prose one character longer than a chunk.
PdfTexts == {<<>>, MessyText, ProseText(60), ProseText(CHUNK_SIZE + 1)}

\* isTextQualityGood(text), cleanText(text) and chunkText(cleanText(text)) for each
\* of these texts, computed once for all the requests that meet the text.
TextFacts ==
    {[text |-> t, good |-> isTextQualityGood(t), cleaned |-> cleanText(t),
      chunks |-> chunkText(cleanText(t))] : t \in PdfTexts}
FactsOf(t) == CHOOSE e \in TextFacts : e.text = t
GoodQualityOf(t) == FactsOf(t).good
NormalizedOf(t) == FactsOf(t).cleaned
ChunksOf(t) == FactsOf(t).chunks
\* numpages 0 stands for a missing or zero page count.
PageCounts == {0, 2}

ParserRejects == [ok |-> FALSE, text |-> <<>>, numpages |-> 0]
\* What line 172 reads of the parser's answer: data.text and data.numpages.
ParserOutcomes ==
    {ParserRejects} \cup {[ok |-> TRUE, text |-> t, numpages |-> n] :
                            t \in PdfTexts, n \in PageCounts}
\* What line 260 reads of it: data.text.
TextOutcomes ==
    {ParserRejects} \cup {[ok |-> TRUE, text |-> t, numpages |-> 0] : t \in PdfTexts}
\* What line 230 reads of it: data.numpages.
PageOutcomes ==
    {ParserRejects} \cup {[ok |-> TRUE, text |-> <<>>, numpages |-> n] :
                            n \in PageCounts}

\* Mutant of PageCount: the page count as reported, without the default of 1.
PageCountNoDefault(numpages) == numpages

\* data.numpages || 1
PageCount(numpages) == IF numpages = 0 THEN 1 ELSE numpages

\* Mutant of runOcrOnPdf: the parser's text is not returned (line 269 returns "").
runOcrOnPdfNoText(outcome) == <<>>

\* Lines 255-275: runOcrOnPdf, given the outcome of its call of the parser.
runOcrOnPdf(outcome) == IF outcome.ok THEN outcome.text ELSE <<>>

\* Mutant of ChooseText: the OCR text wins a tie (>= for >).
ChooseTextOnTie(nativeText, ocrText) ==
    IF Len(ocrText) >= Len(nativeText)
    THEN [text |-> ocrText, ocrUsed |-> TRUE]
    ELSE [text |-> nativeText, ocrUsed |-> FALSE]

\* Lines 186-189.
ChooseText(nativeText, ocrText) ==
    IF Len(ocrText) > Len(nativeText)
    THEN [text |-> ocrText, ocrUsed |-> TRUE]
    ELSE [text |-> nativeText, ocrUsed |-> FALSE]

\* Lines 197-202 and 233-238.
ExtractionResult(cleanedText, chunkList, numPages, ocrUsed) ==
    [fullText |-> cleanedText, chunks |-> chunkList,
     pagesProcessed |-> numPages, ocrUsed |-> ocrUsed]

\* Mutant of FailureResult: the page sentinel 1 in the failure result.
FailureResultOnePage ==
    [fullText |-> <<>>, chunks |-> <<>>, pagesProcessed |-> 1, ocrUsed |-> FALSE]

\* Lines 206-211.
FailureResult ==
    [fullText |-> <<>>, chunks |-> <<>>, pagesProcessed |-> 0, ocrUsed |-> FALSE]

\* Mutant of OcrFailureResult: the page sentinel 1 in the failure result.
OcrFailureResultOnePage ==
    [fullText |-> <<>>, chunks |-> <<>>, pagesProcessed |-> 1, ocrUsed |-> TRUE]

\* Lines 242-247.
OcrFailureResult ==
    [fullText |-> <<>>, chunks |-> <<>>, pagesProcessed |-> 0, ocrUsed |-> TRUE]

Init == ReqIdle /\ NormIdle /\ ChunkIdle /\ QualIdle /\ OcrIdle

\* Lines 163-172: the call, up to the await of the native parse.
CallExtractPdfText(r) ==
    /\ req[r].pc = "idle"
    /\ \E highPrecision \in BOOLEAN :
        req' = [req EXCEPT ![r] = [@ EXCEPT !.kind = "extractPdfText",
                                            !.pc = "await172",
                                            !.trace = <<"NativeParse">>]]
    /\ UNCHANGED <<normVars, chunkVars, qualVars, ocrVars>>

\* Line 172 rejects: lines 204-212.
StdParseFails(r) ==
    /\ req[r].pc = "await172"
    /\ req' = [req EXCEPT ![r] = [@ EXCEPT !.pc = "done",
                                           !.result = <<FailureResult>>,
                                           !.trace = @ \o <<"Failure">>,
                                           !.parses = Append(@, ParserRejects)]]
    /\ UNCHANGED <<normVars, chunkVars, qualVars, ocrVars>>

\* Lines 173-179 with a text the classifier accepts, then lines 192-202.
StdNativeGood(r) ==
    /\ req[r].pc = "await172"
    /\ \E o \in ParserOutcomes :
        /\ o.ok
        /\ GoodQualityOf(o.text)
        /\ LET cleanedText == NormalizedOf(o.text)
           IN  req' = [req EXCEPT ![r] =
                    [@ EXCEPT !.pc = "done",
                              !.text = o.text,
                              !.numPages = PageCount(o.numpages),
                              !.result = <<ExtractionResult(cleanedText,
                                            ChunksOf(o.text),
                                            PageCount(o.numpages), FALSE)>>,
                              !.trace = @ \o <<"QualityCheck", "Normalize",
                                               "Chunk", "Done">>,
                              !.parses = Append(@, o)]]
    /\ UNCHANGED <<normVars, chunkVars, qualVars, ocrVars>>

\* Mutant of StdNativeBad: the test of line 179 is missing, runOcrOnPdf is called
\* whatever the classifier says.
StdNativeBadUntested(r) ==
    /\ req[r].pc = "await172"
    /\ \E o \in ParserOutcomes :
        /\ o.ok
        /\ req' = [req EXCEPT ![r] =
                    [@ EXCEPT !.pc = "await260",
                              !.text = o.text,
                              !.numPages = PageCount(o.numpages),
                              !.trace = @ \o <<"QualityCheck", "OcrFallback">>,
                              !.parses = Append(@, o)]]
    /\ UNCHANGED <<normVars, chunkVars, qualVars, ocrVars>>

\* Lines 173-184 with a text the classifier rejects: runOcrOnPdf is entered and
\* awaits the parser at line 260.
StdNativeBad(r) ==
    /\ req[r].pc = "await172"
    /\ \E o \in ParserOutcomes :
        /\ o.ok
        /\ ~GoodQualityOf(o.text)
        /\ req' = [req EXCEPT ![r] =
                    [@ EXCEPT !.pc = "await260",
                              !.text = o.text,
                              !.numPages = PageCount(o.numpages),
                              !.trace = @ \o <<"QualityCheck", "OcrFallback">>,
                              !.parses = Append(@, o)]]
    /\ UNCHANGED <<normVars, chunkVars, qualVars, ocrVars>>

\* Lines 260-274 return to line 184, then lines 186-202.
StdOcrReturns(r) ==
    /\ req[r].pc = "await260"
    /\ req[r].kind = "extractPdfText"
    /\ \E o \in TextOutcomes :
        LET chosen == ChooseText(req[r].text, runOcrOnPdf(o))
            cleanedText == NormalizedOf(chosen.text)
        IN  req' = [req EXCEPT ![r] =
                    [@ EXCEPT !.pc = "done",
                              !.text = chosen.text,
                              !.result = <<ExtractionResult(cleanedText,
                                            ChunksOf(chosen.text),
                                            req[r].numPages, chosen.ocrUsed)>>,
                              !.trace = @ \o <<"Normalize", "Chunk", "Done">>,
                              !.parses = Append(@, o)]]
    /\ UNCHANGED <<normVars, chunkVars, qualVars, ocrVars>>

\* Mutant of CallExtractPdfWithOcr: the forced path drops the cached engine when it
\* starts (ocrWorker = null).
CallExtractPdfWithOcrDroppingEngine(r) ==
    /\ req[r].pc = "idle"
    /\ \E highPrecision \in BOOLEAN :
        req' = [req EXCEPT ![r] = [@ EXCEPT !.kind = "extractPdfWithOcr",
                                            !.pc = "await260",
                                            !.trace = <<"OcrFallback">>]]
    /\ ocrWorker' = 0
    /\ UNCHANGED <<engines, ocrRun, shut>>
    /\ UNCHANGED <<normVars, chunkVars, qualVars>>

\* Lines 218-225: the call, up to the await of the parser inside runOcrOnPdf.
CallExtractPdfWithOcr(r) ==
    /\ req[r].pc = "idle"
    /\ \E highPrecision \in BOOLEAN :
        req' = [req EXCEPT ![r] = [@ EXCEPT !.kind = "extractPdfWithOcr",
                                            !.pc = "await260",
                                            !.trace = <<"OcrFallback">>]]
    /\ UNCHANGED <<normVars, chunkVars, qualVars, ocrVars>>

\* Lines 260-274 return to line 225, then lines 226-230: normalize, chunk and await
\* the parser for the page count.
ForcedOcrReturns(r) ==
    /\ req[r].pc = "await260"
    /\ req[r].kind = "extractPdfWithOcr"
    /\ \E o \in TextOutcomes :
        LET cleanedText == NormalizedOf(runOcrOnPdf(o))
        IN  req' = [req EXCEPT ![r] =
                [@ EXCEPT !.pc = "await230",
                          !.text = runOcrOnPdf(o),
                          !.cleanedText = cleanedText,
                          !.chunks = ChunksOf(runOcrOnPdf(o)),
                          !.trace = @ \o <<"Normalize", "Chunk", "PageCount">>,
                          !.parses = Append(@, o)]]
    /\ UNCHANGED <<normVars, chunkVars, qualVars, ocrVars>>

\* Line 230 resolves: lines 231-238.
ForcedPagesOk(r) ==
    /\ req[r].pc = "await230"
    /\ \E o \in PageOutcomes :
        /\ o.ok
        /\ req' = [req EXCEPT ![r] =
                    [@ EXCEPT !.pc = "done",
                              !.numPages = PageCount(o.numpages),
                              !.result = <<ExtractionResult(req[r].cleanedText,
                                            req[r].chunks,
                                            PageCount(o.numpages), TRUE)>>,
                              !.trace = @ \o <<"Done">>,
                              !.parses = Append(@, o)]]
    /\ UNCHANGED <<normVars, chunkVars, qualVars, ocrVars>>

\* Line 230 rejects: lines 240-248.
ForcedPagesFail(r) ==
    /\ req[r].pc = "await230"
    /\ req' = [req EXCEPT ![r] = [@ EXCEPT !.pc = "done",
                                           !.result = <<OcrFailureResult>>,
                                           !.trace = @ \o <<"Failure">>,
                                           !.parses = Append(@, ParserRejects)]]
    /\ UNCHANGED <<normVars, chunkVars, qualVars, ocrVars>>

Next ==
    \E r \in Requests :
        \/ CallExtractPdfText(r)
        \/ StdParseFails(r)
        \/ StdNativeGood(r)
        \/ StdNativeBad(r)
        \/ StdOcrReturns(r)
        \/ CallExtractPdfWithOcr(r)
        \/ ForcedOcrReturns(r)
        \/ ForcedPagesOk(r)
        \/ ForcedPagesFail(r)

Spec == Init /\ [][Next]_vars

(* ---------------------------------------------------------------------- *)
(* The OCR engine: calls of runOcr (lines 129-154, with getOcrWorker,     *)
(* lines 117-127) and of terminateOcrWorker (lines 281-287), interleaved  *)
(* at their awaits: createWorker at line 121, toBuffer at line 145,       *)
(* recognize at line 147 and terminate at line 283. Each of these         *)
(* collaborators resolves or rejects.                                     *)
(* ---------------------------------------------------------------------- *)

\* result.data.text: nothing recognized, or some text.
OcrTexts == {<<>>, <<LETTER>>}

\* An engine as createWorker yields it; terminations counts the calls of its
\* terminate().
NewEngine == [terminations |-> 0]

\* Mutant of WorkerAfterShutdown: line 284 is missing.
WorkerAfterShutdownKept(w) == w

\* Line 284: ocrWorker = null.
WorkerAfterShutdown(w) == 0

\* Lines 129-131 and 117-121 with ocrWorker null: createWorker is called and awaited.
RunOcrCreates(p) ==
    /\ ocrRun[p].pc = "idle"
    /\ ocrWorker = 0
    /\ \E highPrecision \in BOOLEAN :
        ocrRun' = [ocrRun EXCEPT ![p] = [@ EXCEPT !.pc = "await121",
                                                  !.highPrecision = highPrecision]]
    /\ UNCHANGED <<ocrWorker, engines, shut>>
    /\ UNCHANGED <<normVars, chunkVars, qualVars, req>>

\* Lines 129-131 and 117-118 with ocrWorker set, then lines 134-145: the cached
\* engine is returned, the image is prepared and toBuffer is awaited.
RunOcrReuses(p) ==
    /\ ocrRun[p].pc = "idle"
    /\ ocrWorker # 0
    /\ \E highPrecision \in BOOLEAN :
        ocrRun' = [ocrRun EXCEPT ![p] =
                    [@ EXCEPT !.pc = "await145",
                              !.highPrecision = highPrecision,
                              !.worker = ocrWorker,
                              !.seen = engines[ocrWorker].terminations]]
    /\ UNCHANGED <<ocrWorker, engines, shut>>
    /\ UNCHANGED <<normVars, chunkVars, qualVars, req>>

\* Line 121 resolves: lines 121-126, back in runOcr lines 131-145.
CreateResolves(p) ==
    /\ ocrRun[p].pc = "await121"
    /\ engines' = Append(engines, NewEngine)
    /\ ocrWorker' = Len(engines) + 1
    /\ ocrRun' = [ocrRun EXCEPT ![p] = [@ EXCEPT !.pc = "await145",
                                                  !.worker = Len(engines) + 1,
                                                  !.seen = 0]]
    /\ UNCHANGED shut
    /\ UNCHANGED <<normVars, chunkVars, qualVars, req>>

\* Line 121 rejects: getOcrWorker throws into the try of runOcr, lines 150-152.
CreateRejects(p) ==
    /\ ocrRun[p].pc = "await121"
    /\ ocrRun' = [ocrRun EXCEPT ![p] = [@ EXCEPT !.pc = "done",
                                                  !.createFailed = TRUE,
                                                  !.outcome = "empty",
                                                  !.text = <<>>]]
    /\ UNCHANGED <<ocrWorker, engines, shut>>
    /\ UNCHANGED <<normVars, chunkVars, qualVars, req>>

\* Line 145 resolves: line 147, worker.recognize is called and awaited.
ToBufferResolves(p) ==
    /\ ocrRun[p].pc = "await145"
    /\ ocrRun' = [ocrRun EXCEPT ![p] = [@ EXCEPT !.pc = "await147"]]
    /\ UNCHANGED <<ocrWorker, engines, shut>>
    /\ UNCHANGED <<normVars, chunkVars, qualVars, req>>

\* Line 145 rejects: lines 150-152.
ToBufferRejects(p) ==
    /\ ocrRun[p].pc = "await145"
    /\ ocrRun' = [ocrRun EXCEPT ![p] = [@ EXCEPT !.pc = "done",
                                                  !.outcome = "empty",
                                                  !.text = <<>>]]
    /\ UNCHANGED <<ocrWorker, engines, shut>>
    /\ UNCHANGED <<normVars, chunkVars, qualVars, req>>

\* Line 147 resolves: line 148 returns result.data.text || "".
RecognizeResolves(p) ==
    /\ ocrRun[p].pc = "await147"
    /\ \E t \in OcrTexts :
        ocrRun' = [ocrRun EXCEPT ![p] = [@ EXCEPT !.pc = "done",
                                                  !.outcome = "text",
                                                  !.text = t]]
    /\ UNCHANGED <<ocrWorker, engines, shut>>
    /\ UNCHANGED <<normVars, chunkVars, qualVars, req>>

\* Line 147 rejects: lines 150-152.
RecognizeRejects(p) ==
    /\ ocrRun[p].pc = "await147"
    /\ ocrRun' = [ocrRun EXCEPT ![p] = [@ EXCEPT !.pc = "done",
                                                  !.outcome = "empty",
                                                  !.text = <<>>]]
    /\ UNCHANGED <<ocrWorker, engines, shut>>
    /\ UNCHANGED <<normVars, chunkVars, qualVars, req>>

ShutdownsMade == {u \in Shutdowns : shut[u].pc # "idle"}
ShutdownsInFlight == {u \in Shutdowns : shut[u].pc = "await283"}

\* Lines 281-282 with ocrWorker null: the call returns at once.
ShutdownNoWorker(t) ==
    /\ shut[t].pc = "idle"
    /\ ocrWorker = 0
    /\ shut' = [shut EXCEPT ![t] = [@ EXCEPT !.pc = "done",
                                              !.nth = Cardinality(ShutdownsMade),
                                              !.overlapped = ShutdownsInFlight # {}]]
    /\ UNCHANGED <<ocrWorker, engines, ocrRun>>
    /\ UNCHANGED <<normVars, chunkVars, qualVars, req>>

\* Lines 281-283 with ocrWorker set: ocrWorker.terminate() is called and awaited.
ShutdownStarts(t) ==
    /\ shut[t].pc = "idle"
    /\ ocrWorker # 0
    /\ engines' = [engines EXCEPT ![ocrWorker].terminations = @ + 1]
    /\ shut' = [shut EXCEPT ![t] = [@ EXCEPT !.pc = "await283",
                                              !.worker = ocrWorker,
                                              !.nth = Cardinality(ShutdownsMade),
                                              !.overlapped = ShutdownsInFlight # {}]]
    /\ UNCHANGED <<ocrWorker, ocrRun>>
    /\ UNCHANGED <<normVars, chunkVars, qualVars, req>>

\* Line 283 resolves: lines 284-285.
ShutdownResolves(t) ==
    /\ shut[t].pc = "await283"
    /\ ocrWorker' = WorkerAfterShutdown(ocrWorker)
    /\ shut' = [shut EXCEPT ![t] = [@ EXCEPT !.pc = "done"]]
    /\ UNCHANGED <<engines, ocrRun>>
    /\ UNCHANGED <<normVars, chunkVars, qualVars, req>>

\* Line 283 rejects: terminateOcrWorker has no try, the rejection reaches its caller.
ShutdownRejects(t) ==
    /\ shut[t].pc = "await283"
    /\ shut' = [shut EXCEPT ![t] = [@ EXCEPT !.pc = "raised"]]
    /\ UNCHANGED <<ocrWorker, engines, ocrRun>>
    /\ UNCHANGED <<normVars, chunkVars, qualVars, req>>

InitOcr == OcrIdle /\ NormIdle /\ ChunkIdle /\ QualIdle /\ ReqIdle

NextOcr ==
    \/ \E p \in OcrCalls :
            \/ RunOcrCreates(p)
            \/ RunOcrReuses(p)
            \/ CreateResolves(p)
            \/ CreateRejects(p)
            \/ ToBufferResolves(p)
            \/ ToBufferRejects(p)
            \/ RecognizeResolves(p)
            \/ RecognizeRejects(p)
    \/ \E t \in Shutdowns :
            \/ ShutdownNoWorker(t)
            \/ ShutdownStarts(t)
            \/ ShutdownResolves(t)
            \/ ShutdownRejects(t)

SpecOcr == InitOcr /\ [][NextOcr]_vars

(* ---------------------------------------------------------------------- *)
(* The process: the extraction requests interleaved, at their awaits,     *)
(* with a call of runOcr and a call of terminateOcrWorker. The call of    *)
(* runOcr is the only one, so it never finds an engine cached at line 118 *)
(* and always takes the branch of line 121.                               *)
(* ---------------------------------------------------------------------- *)

NextProcess ==
    \/ Next
    \/ RunOcrCreates(1)
    \/ CreateResolves(1)
    \/ CreateRejects(1)
    \/ ToBufferResolves(1)
    \/ ToBufferRejects(1)
    \/ RecognizeResolves(1)
    \/ RecognizeRejects(1)
    \/ ShutdownNoWorker(1)
    \/ ShutdownStarts(1)
    \/ ShutdownResolves(1)
    \/ ShutdownRejects(1)

SpecProcess == Init /\ [][NextProcess]_vars

(* ---------------------------------------------------------------------- *)
(* Claims about the extraction paths (specification Spec)                 *)
(* ---------------------------------------------------------------------- *)

Returned(r) == req[r].pc = "done"
ResultOf(r) == req[r].result[1]
Std(r) == req[r].kind = "extractPdfText"
Forced(r) == req[r].kind = "extractPdfWithOcr"
AllParsesRejected(r) == \A k \in 1..Len(req[r].parses) : ~req[r].parses[k].ok

\* C1: in extractPdfText, whenever the native text is classified bad, the result
\* carries the OCR-fallback text with ocrUsed = true if and only if the OCR text is
\* strictly longer than the native text; otherwise it carries the native text with
\* ocrUsed = false.
C1_OcrAdoptedIffStrictlyLonger ==
    \A r \in Requests :
        (/\ Std(r) /\ Returned(r)
         /\ req[r].parses[1].ok
         /\ ~GoodQualityOf(req[r].parses[1].text))
        => /\ Len(req[r].parses) = 2
           /\ LET native == req[r].parses[1].text
                  ocr == IF req[r].parses[2].ok THEN req[r].parses[2].text ELSE <<>>
              IN  IF Len(ocr) > Len(native)
                  THEN /\ ResultOf(r).ocrUsed
                       /\ ResultOf(r).fullText = NormalizedOf(ocr)
                  ELSE /\ ~ResultOf(r).ocrUsed
                       /\ ResultOf(r).fullText = NormalizedOf(native)

\* C1 witness: a bad native text was replaced by a strictly longer OCR text.
C1_Witness ==
    \E r \in Requests :
        /\ Std(r) /\ Returned(r)
        /\ Len(req[r].parses) = 2
        /\ ~GoodQualityOf(req[r].parses[1].text)
        /\ req[r].parses[2].ok
        /\ Len(req[r].parses[2].text) > Len(req[r].parses[1].text)
        /\ ResultOf(r).ocrUsed
        /\ ResultOf(r).fullText = NormalizedOf(req[r].parses[2].text)
        /\ ResultOf(r).fullText # NormalizedOf(req[r].parses[1].text)

\* C2: in extractPdfText, if the native parser fails, the request goes directly to
\* Failure and returns exactly {fullText "", chunks [], pagesProcessed 0, ocrUsed
\* false}: no quality check, OCR fallback, normalizer or chunker runs.
C2_ParseFailureGivesEmptyResult ==
    \A r \in Requests :
        (Std(r) /\ Returned(r) /\ ~req[r].parses[1].ok)
        => /\ ResultOf(r) = [fullText |-> <<>>, chunks |-> <<>>,
                             pagesProcessed |-> 0, ocrUsed |-> FALSE]
           /\ req[r].trace = <<"NativeParse", "Failure">>
           /\ Len(req[r].parses) = 1

\* C2 witness: a standard request whose native parse was rejected has returned.
C2_Witness ==
    \E r \in Requests :
        /\ Std(r) /\ Returned(r)
        /\ ~req[r].parses[1].ok
        /\ ResultOf(r).pagesProcessed = 0

\* C3 as stated: both operations always return a result, and when every call of the
\* parser fails (malformed input) the result is {"", [], 0, ocrUsed false}.
C3_Original ==
    \A r \in Requests :
        Returned(r)
        => /\ Len(req[r].result) = 1
           /\ AllParsesRejected(r)
                => ResultOf(r) = [fullText |-> <<>>, chunks |-> <<>>,
                                  pagesProcessed |-> 0, ocrUsed |-> FALSE]

\* C3 amended: neither operation raises: a request is only ever waiting for the
\* parser or returned, and a returned request has a result; on malformed input the
\* result has fullText "", chunks [] and pagesProcessed 0, with ocrUsed false from
\* extractPdfText and ocrUsed true from extractPdfWithOcr.
C3_TotalWithEmptyResult ==
    \A r \in Requests :
        /\ req[r].pc \in {"idle", "await172", "await260", "await230", "done"}
        /\ Returned(r)
            => /\ Len(req[r].result) = 1
               /\ AllParsesRejected(r)
                    => ResultOf(r) = [fullText |-> <<>>, chunks |-> <<>>,
                                      pagesProcessed |-> 0, ocrUsed |-> Forced(r)]

\* C3 witness: a forced-OCR request has returned after every parser call failed.
C3_Witness ==
    \E r \in Requests :
        /\ Forced(r) /\ Returned(r)
        /\ Len(req[r].parses) = 2
        /\ AllParsesRejected(r)
        /\ ResultOf(r).ocrUsed

C12_ChunksEmptyIffFullTextEmpty ==
    \A r \in Requests :
        Returned(r) => ((ResultOf(r).chunks = <<>>) <=> (ResultOf(r).fullText = <<>>))

\* C12 witness: one request returned a text longer than a chunk with several chunks,
\* and another returned, after a successful parse, the empty text with no chunk.
C12_Witness ==
    /\ \E r \in Requests :
            /\ Returned(r)
            /\ Len(ResultOf(r).fullText) > CHUNK_SIZE
            /\ Len(ResultOf(r).chunks) >= 2
    /\ \E r \in Requests :
            /\ Returned(r)
            /\ \A k \in 1..Len(req[r].parses) : req[r].parses[k].ok
            /\ ResultOf(r).fullText = <<>>
            /\ ResultOf(r).chunks = <<>>

(* ---------------------------------------------------------------------- *)
(* Claims about the normalizer (specification SpecClean)                  *)
(* ---------------------------------------------------------------------- *)

\* C5: cleanText is idempotent: cleanText(cleanText(x)) = cleanText(x) for every x.
C5_Idempotent == npc = "twice" => recleaned = cleaned

(* ---------------------------------------------------------------------- *)
(* Claims about the chunker (specification SpecChunk)                     *)
(* ---------------------------------------------------------------------- *)

\* A string that is not empty after trimming: it has a character trim keeps.
NonBlank(s) == \E i \in 1..Len(s) : ~IsWhiteSpace(s[i])

\* Offset o of the input lies in the trimmed slice of some pushed chunk.
Covered(o) ==
    \E k \in 1..Len(windows) :
        windows[k].pushed /\ windows[k].lo <= o /\ o < windows[k].hi

\* C6: every chunk chunkText emits is non-empty after trimming.
C6_ChunksNonEmptyAfterTrim == \A k \in 1..Len(chunks) : NonBlank(chunks[k])

\* C6 witness: the loop met a window of white space only, pushed nothing for it, and
\* returned chunks for the other windows.
C6_Witness ==
    /\ kpc = "done"
    /\ \E k \in 1..Len(windows) : ~windows[k].pushed
    /\ Len(chunks) >= 2
    /\ \A k \in 1..Len(chunks) : NonBlank(chunks[k])

\* C7: every iteration of the chunking loop strictly increases the start offset, so
\* the loop runs at most as many iterations as the start offset it has reached (at
\* most Len(text) in all), and it is left only with startIndex >= Len(text); this
\* holds also for text without delimiters.
C7_LoopAdvancesAndTerminates ==
    /\ [][(kpc = "loop" /\ kpc' = "loop") => startIndex' > startIndex]_vars
    /\ [](kpc = "loop" => Len(windows) <= startIndex)
    /\ []((kpc = "done" /\ Len(text) > CHUNK_SIZE)
            => (startIndex >= Len(text) /\ Len(windows) <= Len(text)))

\* C7 witness: a text longer than a chunk with no period and no newline was cut into
\* several windows and the call returned.
C7_Witness ==
    /\ kpc = "done"
    /\ Len(text) > CHUNK_SIZE
    /\ \A i \in 1..Len(text) : text[i] # DOT /\ text[i] # NL
    /\ Len(windows) >= 3
    /\ startIndex >= Len(text)

\* C8 as stated: every character position of the input is in some emitted chunk.
C8_Original == kpc = "done" => \A o \in 0..(Len(text) - 1) : Covered(o)

\* C8 amended: every position of the input that holds a non-white-space character is
\* in some emitted chunk; white space at the edge of a window is trimmed away and can
\* be in no chunk.
C8_NonBlankPositionsCovered ==
    kpc = "done" =>
        \A o \in 0..(Len(text) - 1) : ~IsWhiteSpace(text[o + 1]) => Covered(o)

\* C8 witness: a returned call on a long text where some position is in no chunk.
C8_Witness ==
    /\ kpc = "done"
    /\ Len(text) > CHUNK_SIZE
    /\ Len(chunks) >= 2
    /\ \E o \in 0..(Len(text) - 1) : IsWhiteSpace(text[o + 1]) /\ ~Covered(o)

\* C9 as stated: every emitted chunk has at most chunkSize characters.
C9_Original == \A k \in 1..Len(chunks) : Len(chunks[k]) <= CHUNK_SIZE

\* C9 amended: every emitted chunk has at most chunkSize + 199 characters: a
\* delimiter found in the 200 characters after the tentative end extends the window.
C9_ChunkSizeBound ==
    \A k \in 1..Len(chunks) : Len(chunks[k]) <= CHUNK_SIZE + SEARCH_RADIUS - 1

\* C9 witness: a chunk of exactly chunkSize + 199 characters.
C9_Witness ==
    \E k \in 1..Len(chunks) : Len(chunks[k]) = CHUNK_SIZE + SEARCH_RADIUS - 1

\* C10: for the empty input chunkText returns the empty sequence, and for a
\* non-empty input of at most chunkSize characters exactly <<trim(input)>>.
C10_EmptyAndSingleChunk ==
    kpc = "done" =>
        /\ Len(text) = 0 => chunks = <<>>
        /\ (Len(text) > 0 /\ Len(text) <= CHUNK_SIZE) => chunks = <<Trim(text)>>

\* C10 witness: an input of exactly chunkSize characters came back as one chunk.
C10_Witness ==
    /\ kpc = "done"
    /\ Len(text) = CHUNK_SIZE
    /\ chunks = <<text>>

(* ---------------------------------------------------------------------- *)
(* Claims about the 20000-character scenario (specification SpecScenario) *)
(* ---------------------------------------------------------------------- *)

\* C11: for a normalized Latin-script text of 20000 characters, wherever its
\* sentence and paragraph delimiters are, chunkText (chunkSize 6000, overlap 500)
\* returns exactly 4 chunks.
C11_FourChunks ==
    (kpc = "done" /\ Len(text) = SCENARIO_LENGTH) => Len(chunks) = 4

(* ---------------------------------------------------------------------- *)
(* Claims about the classifier (specification SpecQuality)                *)
(* ---------------------------------------------------------------------- *)

Classified == qpc = "returned"

\* The value returned is true exactly when the call ends at line 57.
QualityModelAgrees == Classified => (verdict <=> returnLine = 57)

\* C13: isTextQualityGood classifies as bad every sample shorter than 50 characters,
\* whatever its content, the empty sample included.
C13_ShortSampleIsBad ==
    (Classified /\ Len(sample) < MIN_TEXT_LENGTH) => ~verdict

\* C13 witness: a sample of 49 letters, which containsRealWords accepts, was
\* classified bad by the length test of line 61.
C13_Witness ==
    /\ Classified
    /\ Len(sample) = MIN_TEXT_LENGTH - 1
    /\ containsRealWords(sample)
    /\ ~verdict
    /\ returnLine = 61

\* C14: the letter-ratio floor tests are strict: a sample with letterRatio exactly
\* 0.15 (100 * totalLetters = 15 * length) is rejected neither at line 47 nor at
\* line 48, and a sample rejected at line 47 or 48 has letterRatio strictly below
\* 0.15.
C14_LetterFloorIsStrict ==
    Classified =>
        /\ 100 * TotalLetters(sample) = 15 * Len(sample) => returnLine \notin {47, 48}
        /\ returnLine \in {47, 48} => 100 * TotalLetters(sample) < 15 * Len(sample)

\* C14 witness: a sample of at least 50 characters with letterRatio exactly 0.15
\* passed both letter-ratio tests and was classified good.
C14_Witness ==
    /\ Classified
    /\ Len(sample) >= MIN_TEXT_LENGTH
    /\ 100 * TotalLetters(sample) = 15 * Len(sample)
    /\ returnLine = 57
    /\ verdict

\* C15: every sample whose letterRatio is below 0.15 is classified bad; in
\* particular a string of digits only is bad.
C15_LowLetterRatioIsBad ==
    (Classified /\ Len(sample) > 0
        /\ 100 * TotalLetters(sample) < 15 * Len(sample)) => ~verdict

\* C15 witness: a string of 1000 digits was classified bad.
C15_Witness ==
    /\ Classified
    /\ Len(sample) = MaxSampleLen
    /\ \A i \in 1..Len(sample) : IsDigit(sample[i])
    /\ ~verdict
    /\ returnLine = 47

(* ---------------------------------------------------------------------- *)
(* Claims about the OCR engine (specification SpecOcr)                    *)
(* ---------------------------------------------------------------------- *)

\* The calls of runOcr that hold an engine: obtained at line 131, and recognize
\* (line 147) has not completed.
HoldsEngine(p) == ocrRun[p].pc \in {"await145", "await147"}

\* C16: the OCR engine is a singleton: as long as no shutdown has been requested,
\* calls of runOcr, overlapping or not, construct at most one engine and all
\* obtain that same engine.
C16_SingleEngine ==
    (\A t \in Shutdowns : shut[t].pc = "idle")
        => /\ Len(engines) <= 1
           /\ \A p, q \in OcrCalls :
                (ocrRun[p].worker # 0 /\ ocrRun[q].worker # 0)
                    => ocrRun[p].worker = ocrRun[q].worker

\* C17: between the moment a call of runOcr obtains the engine and the completion
\* of its recognize, terminateOcrWorker does not call terminate() on that engine.
C17_EngineNotTerminatedWhileHeld ==
    \A p \in OcrCalls :
        HoldsEngine(p) => engines[ocrRun[p].worker].terminations = ocrRun[p].seen

\* No call of terminateOcrWorker was made while another was in flight, and no
\* terminate() rejected.
SequentialShutdowns ==
    \A t \in Shutdowns : ~shut[t].overlapped /\ shut[t].pc # "raised"

\* C18: terminateOcrWorker is idempotent: a call made when no engine is cached
\* (none was constructed, or an earlier shutdown completed) returns at once,
\* changes neither the cache nor any engine nor any call of runOcr, and calls
\* terminate() on no engine; and under sequential shutdown calls whose terminate()
\* resolves, no engine receives terminate() more than once.
C18_ShutdownIdempotent ==
    /\ [][\A t \in Shutdowns :
            (shut[t].pc = "idle" /\ shut'[t].pc # "idle" /\ ocrWorker = 0)
                => /\ shut'[t].pc = "done"
                   /\ shut'[t].worker = 0
                   /\ ocrWorker' = 0
                   /\ engines' = engines
                   /\ ocrRun' = ocrRun]_vars
    /\ [](SequentialShutdowns
            => \A e \in 1..Len(engines) : engines[e].terminations <= 1)

\* C18 witness: a first shutdown call terminated an engine and completed, a second
\* call made after it found no engine, and that engine was terminated exactly once.
C18_Witness ==
    \E t, u \in Shutdowns :
        /\ shut[t].pc = "done" /\ shut[t].nth = 0 /\ shut[t].worker # 0
        /\ shut[u].pc = "done" /\ shut[u].nth = 1 /\ shut[u].worker = 0
        /\ SequentialShutdowns
        /\ ocrWorker = 0
        /\ engines[shut[t].worker].terminations = 1

\* C19: when the construction of the engine fails, the call of runOcr raises an
\* error to its caller instead of returning an empty OCR text.
C19_CreateFailureIsRaised ==
    \A p \in OcrCalls :
        (ocrRun[p].pc = "done" /\ ocrRun[p].createFailed)
            => ocrRun[p].outcome = "raised"

(* ---------------------------------------------------------------------- *)
(* A further claim about cleanText (specification SpecClean)              *)
(* ---------------------------------------------------------------------- *)

\* Three consecutive newlines start at position i of s.
TripleNewlineAt(s, i) == s[i] = NL /\ s[i + 1] = NL /\ s[i + 2] = NL

\* C20: for every input, the output of cleanText contains no run of three or more
\* consecutive newlines.
C20_NoTripleNewline ==
    npc \in {"once", "twice"}
        => \A i \in 1..(Len(cleaned) - 2) : ~TripleNewlineAt(cleaned, i)

\* One line that begins and ends with a letter and holds letters, spaces and tabs
\* only: every run of spaces and tabs in it lies between two letters.
WordsOnOneLine(s) ==
    /\ Len(s) > 0
    /\ \A i \in 1..Len(s) : s[i] = LETTER \/ IsBlank(s[i])
    /\ s[1] = LETTER
    /\ s[Len(s)] = LETTER

\* C21: cleanText replaces every maximal run of spaces and/or tabs that lies between
\* two non-whitespace characters of a line by exactly one space: on a line of words
\* the output is the input with each such run replaced by one space.
C21_BlankRunBecomesOneSpace ==
    (npc \in {"once", "twice"} /\ WordsOnOneLine(raw)) => cleaned = CollapseBlanks(raw)

(* ---------------------------------------------------------------------- *)
(* Further claims about chunkText (specification SpecChunk)               *)
(* ---------------------------------------------------------------------- *)

\* One of ". ", ".\n", "\n\n" begins at the 0-based offset o of s.
IsDelimAt(s, o) ==
    /\ o + 2 <= Len(s)
    /\ \/ s[o + 1] = DOT /\ (s[o + 2] = SP \/ s[o + 2] = NL)
       \/ s[o + 1] = NL /\ s[o + 2] = NL

\* The offsets of the delimiters that lie in the search zone of the window that
\* starts at start: from 200 characters before the tentative end to 200 after it,
\* and not beyond the end of the text.
DelimsInZone(s, start) ==
    {o \in (start + CHUNK_SIZE - SEARCH_RADIUS)
            ..(Min2(start + CHUNK_SIZE + SEARCH_RADIUS, Len(s)) - 2) : IsDelimAt(s, o)}

MaxOf(S) == CHOOSE b \in S : \A c \in S : c <= b

\* C22 as stated: when the tentative end is before the end of the text and a
\* delimiter occurs in the search zone, the window ends just after the latest
\* delimiter, the whole (two-character) delimiter inside the slice; when none occurs
\* it ends at start + CHUNK_SIZE.
C22_Original ==
    \A k \in 1..Len(windows) :
        LET w == windows[k]
            D == DelimsInZone(text, w.start)
        IN  w.start + CHUNK_SIZE < Len(text)
                => w.end = IF D # {} THEN MaxOf(D) + 2 ELSE w.start + CHUNK_SIZE

\* C22 amended: when the tentative end is before the end of the text and a delimiter
\* occurs in the search zone, the window ends just after the first character of the
\* latest delimiter (its period, or the first newline of a blank line); when none
\* occurs it ends at start + CHUNK_SIZE.
C22_EndAfterFirstCharOfLatestDelimiter ==
    \A k \in 1..Len(windows) :
        LET w == windows[k]
            D == DelimsInZone(text, w.start)
        IN  w.start + CHUNK_SIZE < Len(text)
                => w.end = IF D # {} THEN MaxOf(D) + 1 ELSE w.start + CHUNK_SIZE

\* C22 witness: a window with two delimiters of different kinds in its search zone,
\* and a later window, not the last, with none.
C22_Witness ==
    \E k, m \in 1..Len(windows) :
        /\ \E o, q \in DelimsInZone(text, windows[k].start) :
                o < q /\ text[o + 1] # text[q + 1]
        /\ k < m
        /\ windows[m].start + CHUNK_SIZE < Len(text)
        /\ DelimsInZone(text, windows[m].start) = {}

\* The number of positions that the windows v and w have in common.
Shared(v, w) ==
    Max2(0, Min2(v.end, w.end) - Max2(v.start, w.start))

\* The anti-stall rule of line 107 applied after the window w.
AntiStall(w) ==
    w.end - CHUNK_OVERLAP <= 0 \/ w.end - CHUNK_OVERLAP >= Len(text) - TAIL_MARGIN

\* C23: for an input longer than CHUNK_SIZE, each window after the first starts
\* exactly CHUNK_OVERLAP characters before the end of the preceding window, and the
\* two share at most CHUNK_OVERLAP characters; where the anti-stall rule applied it
\* starts at the end of the preceding window and they share none.
C23_WindowsOverlapExactly ==
    \A k \in 2..Len(windows) :
        LET v == windows[k - 1]
            w == windows[k]
        IN  IF AntiStall(v)
            THEN w.start = v.end /\ Shared(v, w) = 0
            ELSE w.start = v.end - CHUNK_OVERLAP /\ Shared(v, w) <= CHUNK_OVERLAP

\* C23 witness: a call that cut three windows, the first ending at a delimiter.
C23_Witness ==
    /\ kpc = "done"
    /\ Len(windows) >= 3
    /\ windows[1].end # CHUNK_SIZE
    /\ Shared(windows[1], windows[2]) = CHUNK_OVERLAP
    /\ Shared(windows[2], windows[3]) = CHUNK_OVERLAP

(* ---------------------------------------------------------------------- *)
(* Further claims about the classifier (specification SpecQuality)        *)
(* ---------------------------------------------------------------------- *)

\* The word-like tokens over the letter sets of the letter count: the maximal runs of
\* at least three Arabic-script letters (Arabic, Arabic Supplement, Arabic
\* Extended-A) and those of at least three Latin-script letters.
WordsOverLetterSets(s) == CountWords(s, IsArabicLetter) + CountWords(s, IsLatinLetter)

\* C24: the word count of the classifier is the number of maximal runs of at least
\* three letters of the Arabic ranges of the letter count, plus those of Latin
\* letters: a sample that reaches the sparsity test is rejected by it exactly when
\* that number is below length / 100.
C24_WordsUseLetterSets ==
    (Classified /\ returnLine \in {55, 57})
        => (returnLine = 55 <=> 100 * WordsOverLetterSets(sample) < Len(sample))

\* letterRatio >= 0.15 and totalWords >= (length / 10) * 0.1, with the length of the
\* sample as given (lines 43, 44, 54).
LetterRatioAtLeastFloor(s) == 100 * TotalLetters(s) >= 15 * Len(s)
WordsAtLeastExpected(s) == 100 * TotalWords(s) >= Len(s)

\* C25 as stated: a sample whose length as given is at least 50 and whose
\* letterRatio is at least 0.15 is good if and only if
\* totalWords >= (length / 10) * 0.1.
C25_Original ==
    (Classified /\ Len(sample) >= MIN_TEXT_LENGTH /\ LetterRatioAtLeastFloor(sample))
        => (verdict <=> WordsAtLeastExpected(sample))

\* C25 amended: a sample whose length after trimming is at least 50 and whose
\* letterRatio (over the length as given) is at least 0.15 is good if and only if
\* totalWords >= (length / 10) * 0.1, length being the length as given.
C25_SparsityDecidesTrimmedLongSample ==
    (Classified /\ Len(Trim(sample)) >= MIN_TEXT_LENGTH
        /\ LetterRatioAtLeastFloor(sample))
        => (verdict <=> WordsAtLeastExpected(sample))

\* C25 witness: a sample of at least 50 characters after trimming, with enough
\* letters, was rejected by the sparsity test of line 55.
C25_Witness ==
    /\ Classified
    /\ Len(Trim(sample)) >= MIN_TEXT_LENGTH
    /\ LetterRatioAtLeastFloor(sample)
    /\ ~WordsAtLeastExpected(sample)
    /\ ~verdict
    /\ returnLine = 55

(* ---------------------------------------------------------------------- *)
(* Further claims about the extraction paths (specification Spec)         *)
(* ---------------------------------------------------------------------- *)

StandardSteps ==
    <<"NativeParse", "QualityCheck", "OcrFallback", "Normalize", "Chunk", "Done">>
StandardStepsNoOcr == <<"NativeParse", "QualityCheck", "Normalize", "Chunk", "Done">>

IsPrefixOf(a, b) == Len(a) <= Len(b) /\ a = SubSeq(b, 1, Len(a))

\* The steps request r has run, the failure exit (lines 204-212) left out.
StepsOf(r) ==
    LET tr == req[r].trace
    IN  IF Len(tr) > 0 /\ tr[Len(tr)] = "Failure" THEN SubSeq(tr, 1, Len(tr) - 1) ELSE tr

\* C26: a call of extractPdfText runs its steps in the order NativeParse,
\* QualityCheck, optional OcrFallback, Normalize, Chunk, Done; the fallback is
\* invoked if and only if the classifier rejected the native text, and when the
\* native text is good the result has ocrUsed false.
C26_StandardPathOrder ==
    \A r \in Requests :
        req[r].kind = "extractPdfText" =>
            LET steps == StepsOf(r)
            IN  /\ IsPrefixOf(steps, StandardSteps) \/ IsPrefixOf(steps, StandardStepsNoOcr)
                /\ Len(steps) >= 3 =>
                     (steps[3] = "OcrFallback" <=> ~GoodQualityOf(req[r].parses[1].text))
                /\ (req[r].pc = "done" /\ Len(steps) >= 3
                        /\ GoodQualityOf(req[r].parses[1].text))
                     => ~req[r].result[1].ocrUsed

\* C26 witness: one call returned a good native text without the fallback, with
\* ocrUsed false, and another returned after the fallback on a bad native text.
C26_Witness ==
    \E r, q \in Requests :
        /\ req[r].kind = "extractPdfText" /\ req[r].pc = "done"
        /\ req[r].trace = StandardStepsNoOcr
        /\ GoodQualityOf(req[r].parses[1].text)
        /\ ~req[r].result[1].ocrUsed
        /\ req[q].kind = "extractPdfText" /\ req[q].pc = "done"
        /\ req[q].trace = StandardSteps
        /\ ~GoodQualityOf(req[q].parses[1].text)

(* ---------------------------------------------------------------------- *)
(* A further claim about chunkText (specification SpecChunk)              *)
(* ---------------------------------------------------------------------- *)

\* The window w lies entirely inside the window v: text.slice clamps both ends to
\* the length of the text (line 103).
ContainedIn(w, v) ==
    /\ v.start <= w.start
    /\ Min2(w.end, Len(text)) <= Min2(v.end, Len(text))

\* C27: chunkText emits no redundant chunk: no emitted chunk after the first has its
\* window entirely inside the window of the chunk emitted just before it.
C27_NoRedundantChunk ==
    \A k \in 2..Len(Emitted) : ~ContainedIn(Emitted[k], Emitted[k - 1])

\* The calls of the parser whose text request r read: lines 172 and 260 in
\* extractPdfText, line 260 in extractPdfWithOcr (line 230 reads the page count).
TextParses(r) ==
    IF Std(r) THEN 1..Len(req[r].parses) ELSE 1..Min2(1, Len(req[r].parses))

\* The parser answered every call of request r, with the same text each time.
SameTextEveryParse(r) ==
    /\ Len(req[r].parses) > 0
    /\ \A k \in 1..Len(req[r].parses) : req[r].parses[k].ok
    /\ \A j, k \in TextParses(r) : req[r].parses[j].text = req[r].parses[k].text

\* C28: runOcrOnPdf gets its text from a second call of the native parser, so when
\* the parser returns the same text on every call, extractPdfText returns
\* ocrUsed = false and the fullText of extractPdfWithOcr is the normalized native
\* text.
C28_FallbackIsSecondNativeParse ==
    \A r \in Requests :
        (Returned(r) /\ SameTextEveryParse(r)) =>
            /\ Std(r) => ~ResultOf(r).ocrUsed
            /\ Forced(r) => /\ ResultOf(r).fullText = NormalizedOf(req[r].parses[1].text)
                            /\ ResultOf(r).ocrUsed

\* C28 witness: extractPdfText returned after the fallback read the same bad,
\* non-empty text again, with ocrUsed false, and extractPdfWithOcr returned a
\* non-empty fullText.
C28_Witness ==
    \E r, q \in Requests :
        /\ Std(r) /\ Returned(r) /\ SameTextEveryParse(r)
        /\ Len(req[r].parses) = 2
        /\ Len(req[r].parses[1].text) > 0
        /\ ~ResultOf(r).ocrUsed
        /\ Forced(q) /\ Returned(q) /\ SameTextEveryParse(q)
        /\ Len(ResultOf(q).fullText) > 0

(* ---------------------------------------------------------------------- *)
(* A claim about the extraction paths and the OCR engine (specification   *)
(* SpecProcess)                                                           *)
(* ---------------------------------------------------------------------- *)

\* C29: no step of an extractPdfText or extractPdfWithOcr request changes the state
\* of the OCR engine: the requests never construct, use or release it and ocrWorker
\* keeps its value, whatever calls of runOcr and terminateOcrWorker they are
\* interleaved with.
C29_RequestsLeaveEngineAlone ==
    [][req' # req =>
         /\ ocrWorker' = ocrWorker
         /\ engines' = engines
         /\ ocrRun' = ocrRun
         /\ shut' = shut]_vars

\* C29 witness: a request of each kind has returned, the standard one through the
\* fallback, while a call of runOcr holds the engine it constructed, still cached
\* and not terminated.
C29_Witness ==
    \E r, q \in Requests :
        /\ Std(r) /\ Returned(r) /\ Len(req[r].parses) = 2
        /\ Forced(q) /\ Returned(q)
        /\ HoldsEngine(1)
        /\ ocrWorker = ocrRun[1].worker
        /\ engines[ocrWorker].terminations = 0

(* ---------------------------------------------------------------------- *)
(* A further claim about the OCR engine (specification SpecOcr)           *)
(* ---------------------------------------------------------------------- *)

\* C30: getOcrWorker never hands out an engine whose terminate() has been called:
\* whenever ocrWorker is set it refers to an engine that has received no
\* terminate(), and so did every engine a call of runOcr obtained, at the moment it
\* obtained it.
C30_CachedEngineNotTerminating ==
    /\ ocrWorker # 0 => engines[ocrWorker].terminations = 0
    /\ \A p \in OcrCalls : ocrRun[p].worker # 0 => ocrRun[p].seen = 0

====
